---- MODULE Spec2Model ----
\* ICS reader plugin (src/main.ts): the in-memory event collection, the
\* loadEvents invocations that rebuild it, and the date queries and table
\* rendering that read it.
\*
\* Time is counted in minutes since the epoch (UTC).  A Date is its instant;
\* the local clock is the instant shifted by the zone offset tz.
\* A string built by concatenation is the sequence of the pieces concatenated.
EXTENDS Integers, Sequences, FiniteSets, TLC

VARIABLES
    tz,             \* local zone offset in minutes: local clock = UTC + tz
    icalEndFallback,\* whether the installed ical.js derives a missing DTEND from DTSTART
    vault,          \* app.vault.getFiles(): the files of the vault, in order
    settings,       \* this.settings.icsDirectory
    events,         \* this.events
    pluginPc,       \* position of onload(): "onload", "settings", "startup", "ready"
    loads,          \* the loadEvents invocations, one record per slot
    lastDone,       \* the invocation that returned most recently, as it returned
    committed,      \* this.events as it stood when that invocation returned
    lastQuery       \* the most recent query since a load last ran a step, and
                    \* whether the query before it asked for the same date

vars == <<tz, icalEndFallback, vault, settings, events, pluginPc, loads,
          lastDone, committed, lastQuery>>

------------------------------------------------------------------------------
\* Bounds

\* number of loadEvents invocations that may be in flight at once
MaxLoads == 2

MinutesPerDay == 24 * 60

\* zone offsets west of, at and east of Greenwich
TZOffsets == {-300, 0, 330}

\* the calendar days that appear in documents, notes and the clock
Days == {2, 3}

------------------------------------------------------------------------------
\* Dates (the JavaScript Date of lib.dom / date-fns as used by main.ts)

\* the local clock reading of an instant
LocalClock(t) == t + tz

\* toDateString with the day taken from the UTC clock instead of the local one
toDateStringUTC(t) ==
    LET day == t \div MinutesPerDay
    IN  <<day % 7, day>>

\* Date.prototype.toDateString(): weekday and local calendar day, no time of day
toDateString(t) ==
    LET day == LocalClock(t) \div MinutesPerDay
    IN  <<day % 7, day>>

\* new Date("YYYY-MM-DD"): a date-only ISO string is midnight UTC of that day
DateFromISODay(day) == day * MinutesPerDay

Digits == <<"0", "1", "2", "3", "4", "5", "6", "7", "8", "9">>

TwoDigits(n) == <<Digits[(n \div 10) + 1], Digits[(n % 10) + 1]>>

\* format(date, 'HH:mm'): zero-padded local 24-hour clock
formatHHmm(t) ==
    LET m == LocalClock(t) % MinutesPerDay
    IN  TwoDigits(m \div 60) \o <<":">> \o TwoDigits(m % 60)

------------------------------------------------------------------------------
\* Calendar documents and ical.js

\* A DATE-TIME value: calendar day, minute of the day, and the UTC marker "Z"
DateTime(day, minute, utc) == [day |-> day, minute |-> minute, utc |-> utc]

NoDateTime == [day |-> 0, minute |-> 0, utc |-> FALSE]

\* A VEVENT component; hasStart / hasEnd tell whether DTSTART / DTEND are present
VEvent(summary, start, end) ==
    [summary |-> summary, hasStart |-> TRUE, start |-> start,
     hasEnd |-> TRUE, end |-> end]

VEventNoStart(summary, end) ==
    [summary |-> summary, hasStart |-> FALSE, start |-> NoDateTime,
     hasEnd |-> TRUE, end |-> end]

VEventNoEnd(summary, start) ==
    [summary |-> summary, hasStart |-> TRUE, start |-> start,
     hasEnd |-> FALSE, end |-> NoDateTime]

\* ICAL.Time.toJSDate(): a value with the UTC marker is read as UTC, any other
\* as local clock time
toJSDate(dt) ==
    dt.day * MinutesPerDay + dt.minute - (IF dt.utc THEN 0 ELSE tz)

\* event.startDate.toJSDate() throws when DTSTART is absent (startDate is null)
StartThrows(vevent) == ~vevent.hasStart

\* event.endDate.toJSDate(): without DTEND, ical.js either has no endDate
\* (null, so the call throws) or derives it from DTSTART, by version
EndThrows(vevent) ==
    ~vevent.hasEnd /\ (~icalEndFallback \/ ~vevent.hasStart)

EndInstant(vevent) ==
    IF vevent.hasEnd THEN toJSDate(vevent.end) ELSE toJSDate(vevent.start)

\* the object literal built for one vevent in loadEvents' map callback
ToEvent(vevent) ==
    [summary |-> vevent.summary,
     start |-> toJSDate(vevent.start),
     end |-> EndInstant(vevent)]

\* A vault file: path (as characters), extension, whether vault.read resolves,
\* whether ICAL.parse accepts the text, and the VEVENTs of the document
File(path, ext, readable, parses, vevents) ==
    [path |-> path, extension |-> ext, readable |-> readable,
     parses |-> parses, vevents |-> vevents]

------------------------------------------------------------------------------
\* The vaults the plugin is run against

Standup == VEvent("Standup", DateTime(2, 9 * 60, FALSE), DateTime(2, 9 * 60 + 30, FALSE))
Late    == VEvent("Late", DateTime(2, 23 * 60 + 30, FALSE), DateTime(3, 0, FALSE))
Zulu    == VEvent("Zulu", DateTime(2, 30, TRUE), DateTime(2, 90, TRUE))
Early   == VEvent("Early", DateTime(3, 10, FALSE), DateTime(3, 40, FALSE))
NoStart == VEventNoStart("NoStart", DateTime(2, 600, FALSE))
NoEnd   == VEventNoEnd("NoEnd", DateTime(3, 600, FALSE))

PathCA  == <<"c", "/", "a">>
PathCB  == <<"c", "/", "b">>
PathCN  == <<"c", "/", "n">>
PathC2X == <<"c", "2", "/", "x">>
PathNZ  == <<"n", "/", "z">>

\* two well-formed documents
VaultPlain ==
    << File(PathCA, "ics", TRUE, TRUE, <<Standup, Late>>),
       File(PathCB, "ics", TRUE, TRUE, <<Zulu>>) >>

\* a document whose read fails, then a well-formed one
VaultUnreadable ==
    << File(PathCA, "ics", FALSE, TRUE, <<Standup>>),
       File(PathCB, "ics", TRUE, TRUE, <<Early, Zulu>>) >>

\* a well-formed document, then one ICAL.parse rejects
VaultUnparsable ==
    << File(PathCA, "ics", TRUE, TRUE, <<Late>>),
       File(PathC2X, "ics", TRUE, FALSE, <<Standup>>) >>

\* a document with an event lacking DTSTART between two well-formed ones
VaultMissingStart ==
    << File(PathCA, "ics", TRUE, TRUE, <<Standup, NoStart, Late>>),
       File(PathCB, "ics", TRUE, TRUE, <<Early>>) >>

\* a document with an event lacking DTEND; a note and a file elsewhere
VaultMissingEnd ==
    << File(PathNZ, "ics", TRUE, TRUE, <<Late>>),
       File(PathCN, "md", TRUE, FALSE, <<>>),
       File(PathCA, "ics", TRUE, TRUE, <<Standup, NoEnd>>) >>

\* no calendar document at all
VaultEmpty ==
    << File(PathCN, "md", TRUE, FALSE, <<>>) >>

Vaults == {VaultPlain, VaultUnreadable, VaultUnparsable, VaultMissingStart,
           VaultMissingEnd, VaultEmpty}

\* values of the icsDirectory setting: unset, and the folder "c"
DirUnset == <<>>
Dirs == {DirUnset, <<"c">>}

\* the instants the clock is read at: 22:00 UTC of day 2, which is day 2 west
\* of and at Greenwich and day 3 east of it
Nows == {2 * MinutesPerDay + 22 * 60}

------------------------------------------------------------------------------
\* loadEvents

Slots == 1..MaxLoads

\* String.prototype.startsWith
StartsWith(path, prefix) ==
    /\ Len(prefix) <= Len(path)
    /\ SubSeq(path, 1, Len(prefix)) = prefix

RECURSIVE Filter(_, _, _)
\* Array.prototype.filter over files: keep, in order, those under the directory
\* with extension 'ics'
Filter(files, dir, k) ==
    IF k > Len(files) THEN <<>>
    ELSE (IF StartsWith(files[k].path, dir) /\ files[k].extension = "ics"
          THEN <<files[k]>> ELSE <<>>) \o Filter(files, dir, k + 1)

IcsFiles(dir) == Filter(vault, dir, 1)

\* whether the body of the per-file try block throws for this file: the read
\* rejects, ICAL.parse throws, or the map callback throws on some vevent
FileThrows(file) ==
    \/ ~file.readable
    \/ ~file.parses
    \/ \E k \in 1..Len(file.vevents) :
          StartThrows(file.vevents[k]) \/ EndThrows(file.vevents[k])

\* vevents.map(...): one event per vevent, in component order
FileEvents(file) ==
    [k \in 1..Len(file.vevents) |-> ToEvent(file.vevents[k])]

\* the per-file try/catch: push every event of the file, or on a throw none
ProcessFile(evs, file) ==
    IF FileThrows(file) THEN evs ELSE evs \o FileEvents(file)

\* no query has read the collection since a load last touched it
NoQuery ==
    [kind |-> "none", noteDay |-> 0, date |-> 0, result |-> <<>>, out |-> <<>>,
     again |-> FALSE]

\* whether the query before this one asked for the same date
Again(date) == lastQuery.kind # "none" /\ lastQuery.date = date

\* the notices loadEvents shows
NoNotice == [kind |-> "none", n |-> 0]
NotSetNotice == [kind |-> "notset", n |-> 0]
ErrorNotice == [kind |-> "error", n |-> 0]
LoadedNotice(evs) == [kind |-> "loaded", n |-> Len(evs)]

IdleLoad == [pc |-> "idle", icsFiles |-> <<>>, idx |-> 0, notice |-> NoNotice]

\* AfterFile without the per-file try/catch: a throw reaches the outer catch,
\* which ends the invocation with the error notice
AfterFileNoCatch(load, evs) ==
    IF FileThrows(load.icsFiles[load.idx])
    THEN [load EXCEPT !.pc = "done", !.notice = ErrorNotice]
    ELSE IF load.idx < Len(load.icsFiles)
         THEN [load EXCEPT !.idx = @ + 1]
         ELSE [load EXCEPT !.pc = "done", !.notice = LoadedNotice(evs)]

\* AfterFile with the count taken before the last file's events are pushed
AfterFileEarlyCount(load, evs) ==
    IF load.idx < Len(load.icsFiles)
    THEN [load EXCEPT !.idx = @ + 1]
    ELSE [load EXCEPT !.pc = "done", !.notice = LoadedNotice(events)]

\* the invocation after the file at idx was processed: the next read is
\* awaited, or the loop is over and the count is shown
AfterFile(load, evs) ==
    IF load.idx < Len(load.icsFiles)
    THEN [load EXCEPT !.idx = @ + 1]
    ELSE [load EXCEPT !.pc = "done", !.notice = LoadedNotice(evs)]

\* loadEvents from its call to its first await (or to its return)
LoadBegin(i) ==
    /\ loads[i].pc = "idle"
    /\ lastQuery' = NoQuery
    /\ IF settings = DirUnset
       THEN /\ loads' = loads
            /\ events' = events
            /\ lastDone' = [pc |-> "done", icsFiles |-> <<>>, idx |-> 0,
                            notice |-> NotSetNotice]
            /\ committed' = events
       ELSE LET icsFiles == IcsFiles(settings)
            IN  /\ events' = <<>>
                /\ IF icsFiles = <<>>
                   THEN /\ loads' = loads
                        /\ lastDone' = [pc |-> "done", icsFiles |-> icsFiles,
                                        idx |-> 0, notice |-> LoadedNotice(<<>>)]
                        /\ committed' = <<>>
                   ELSE /\ loads' = [loads EXCEPT ![i] =
                               [pc |-> "reading", icsFiles |-> icsFiles, idx |-> 1,
                                notice |-> NoNotice]]
                        /\ UNCHANGED <<lastDone, committed>>

\* loadEvents resumed when the awaited vault.read settles: the rest of the
\* loop body for that file, then on to the next await or to the end
ReadSettles(i) ==
    /\ loads[i].pc = "reading"
    /\ LET file == loads[i].icsFiles[loads[i].idx]
           evs == ProcessFile(events, file)
           next == AfterFile(loads[i], evs)
       IN  /\ events' = evs
           /\ IF next.pc = "done"
              THEN /\ loads' = [loads EXCEPT ![i] = IdleLoad]
                   /\ lastDone' = next
                   /\ committed' = evs
              ELSE /\ loads' = [loads EXCEPT ![i] = next]
                   /\ UNCHANGED <<lastDone, committed>>
    /\ lastQuery' = NoQuery
    /\ UNCHANGED <<tz, icalEndFallback, vault, settings, pluginPc>>

\* the slot a new invocation takes: the first one not in flight
FreeSlots == {i \in Slots : loads[i].pc = "idle"}

FirstFree == CHOOSE i \in FreeSlots : \A j \in FreeSlots : i <= j

------------------------------------------------------------------------------
\* onload

\* await this.loadSettings(): the saved directory, or the default
OnloadSettings ==
    /\ pluginPc = "onload"
    /\ pluginPc' = "settings"
    /\ \E dir \in Dirs : settings' = dir
    /\ UNCHANGED <<tz, icalEndFallback, vault, events, loads, lastDone,
                   committed, lastQuery>>

\* await this.loadEvents(): the startup load is called
OnloadLoadEvents ==
    /\ pluginPc = "settings"
    /\ pluginPc' = "startup"
    /\ LoadBegin(1)
    /\ UNCHANGED <<tz, icalEndFallback, vault, settings>>

\* the startup load has returned: commands, ribbon icon, setting tab and the
\* global function are registered
OnloadRegister ==
    /\ pluginPc = "startup"
    /\ loads[1].pc = "idle"
    /\ pluginPc' = "ready"
    /\ UNCHANGED <<tz, icalEndFallback, vault, settings, events, loads,
                   lastDone, committed, lastQuery>>

\* the 'Refresh ICS Events' command
RefreshCommand ==
    /\ pluginPc = "ready"
    /\ FreeSlots # {}
    /\ LoadBegin(FirstFree)
    /\ UNCHANGED <<tz, icalEndFallback, vault, settings, pluginPc>>

\* the 'Refresh' button of the setting tab
RefreshButton ==
    /\ pluginPc = "ready"
    /\ FreeSlots # {}
    /\ LoadBegin(FirstFree)
    /\ UNCHANGED <<tz, icalEndFallback, vault, settings, pluginPc>>

\* the directory text field's onChange, or a folder chosen in the modal
SetDirectory ==
    /\ pluginPc = "ready"
    /\ \E dir \in Dirs : settings' = dir
    /\ UNCHANGED <<tz, icalEndFallback, vault, events, pluginPc, loads,
                   lastDone, committed, lastQuery>>

------------------------------------------------------------------------------
\* Queries and rendering

RECURSIVE SameDay(_, _, _)
\* this.events.filter(...): keep, in order, the events whose start has the
\* same toDateString() as the date
SameDay(evs, date, k) ==
    IF k > Len(evs) THEN <<>>
    ELSE (IF toDateString(evs[k].start) = toDateString(date)
          THEN <<evs[k]>> ELSE <<>>) \o SameDay(evs, date, k + 1)

getEventsForDate(evs, date) == SameDay(evs, date, 1)

getTodaysEvents(evs, today) == SameDay(evs, today, 1)

TableHeader == <<"| Time | Event |\n", "|------|-------|\n">>

\* `| ${startTime} | ${event.summary} |\n`
TableRow(event) ==
    <<"| ">> \o formatHHmm(event.start) \o <<" | ", event.summary, " |\n">>

RECURSIVE TableRows(_, _)
\* events.forEach(event => eventString += row)
TableRows(evs, k) ==
    IF k > Len(evs) THEN <<>>
    ELSE TableRow(evs[k]) \o TableRows(evs, k + 1)

\* formatEvents without the check for an empty array
formatEventsNoSentinel(evs) == TableHeader \o TableRows(evs, 1)

formatEvents(evs) ==
    IF Len(evs) = 0
    THEN <<"No events for this date.">>
    ELSE TableHeader \o TableRows(evs, 1)

\* the string built by getTodaysEventsForTemplater and by the command
\* 'get-todays-events-for-templater'
TemplaterString(evs) ==
    IF Len(evs) = 0
    THEN <<"No events for today.">>
    ELSE TableHeader \o TableRows(evs, 1)

\* insertTodaysEvents with the filter's result stored back into this.events
InsertTodaysEventsInPlace ==
    /\ pluginPc = "ready"
    /\ \E noteDay \in {0} \cup Days, now \in Nows :
          LET targetDate == IF noteDay # 0 THEN DateFromISODay(noteDay) ELSE now
              found == getEventsForDate(events, targetDate)
          IN  /\ lastQuery' = [kind |-> "insert", noteDay |-> noteDay,
                               date |-> targetDate, result |-> found,
                               out |-> formatEvents(found),
                               again |-> Again(targetDate)]
              /\ events' = found
    /\ UNCHANGED <<tz, icalEndFallback, vault, settings, pluginPc,
                   loads, lastDone, committed>>

\* insertTodaysEvents once the active note was read: noteDay is the day its
\* text gives after 'date:', 0 when there is no active file or no date in it
InsertTodaysEvents ==
    /\ pluginPc = "ready"
    /\ \E noteDay \in {0} \cup Days, now \in Nows :
          LET targetDate == IF noteDay # 0 THEN DateFromISODay(noteDay) ELSE now
              found == getEventsForDate(events, targetDate)
          IN  lastQuery' = [kind |-> "insert", noteDay |-> noteDay,
                            date |-> targetDate, result |-> found,
                            out |-> formatEvents(found),
                            again |-> Again(targetDate)]
    /\ UNCHANGED <<tz, icalEndFallback, vault, settings, events, pluginPc,
                   loads, lastDone, committed>>

\* window.getTodaysEventsForTemplater()
GetTodaysEventsForTemplater ==
    /\ pluginPc = "ready"
    /\ \E now \in Nows :
          LET found == getTodaysEvents(events, now)
          IN  lastQuery' = [kind |-> "templater", noteDay |-> 0,
                            date |-> now, result |-> found,
                            out |-> TemplaterString(found),
                            again |-> Again(now)]
    /\ UNCHANGED <<tz, icalEndFallback, vault, settings, events, pluginPc,
                   loads, lastDone, committed>>

\* the command 'get-todays-events-for-templater'
TemplaterCommand ==
    /\ pluginPc = "ready"
    /\ \E now \in Nows :
          LET found == getTodaysEvents(events, now)
          IN  lastQuery' = [kind |-> "templater", noteDay |-> 0,
                            date |-> now, result |-> found,
                            out |-> TemplaterString(found),
                            again |-> Again(now)]
    /\ UNCHANGED <<tz, icalEndFallback, vault, settings, events, pluginPc,
                   loads, lastDone, committed>>

------------------------------------------------------------------------------
\* The plugin as a state machine

\* whether some document of the vault has a VEVENT without DTEND (the ical.js
\* version makes no difference to any other vault)
LacksEnd(files) ==
    \E k \in 1..Len(files) :
        \E c \in 1..Len(files[k].vevents) : ~files[k].vevents[c].hasEnd

Init ==
    /\ tz \in TZOffsets
    /\ vault \in Vaults
    /\ icalEndFallback \in (IF LacksEnd(vault) THEN BOOLEAN ELSE {TRUE})
    /\ settings = DirUnset
    /\ events = <<>>
    /\ pluginPc = "onload"
    /\ loads = [i \in Slots |-> IdleLoad]
    /\ lastDone = IdleLoad
    /\ committed = <<>>
    /\ lastQuery = NoQuery

Next ==
    \/ OnloadSettings
    \/ OnloadLoadEvents
    \/ OnloadRegister
    \/ RefreshCommand
    \/ RefreshButton
    \/ SetDirectory
    \/ \E i \in Slots : ReadSettles(i)
    \/ InsertTodaysEvents
    \/ GetTodaysEventsForTemplater
    \/ TemplaterCommand

Spec == Init /\ [][Next]_vars

\* The steps that start, advance or configure a load.  The query handlers
\* write lastQuery alone, which no step of a load reads.
LoadNext ==
    \/ OnloadSettings
    \/ OnloadLoadEvents
    \/ OnloadRegister
    \/ RefreshCommand
    \/ RefreshButton
    \/ SetDirectory
    \/ \E i \in Slots : ReadSettles(i)

\* the loads alone, with every awaited vault.read settling in the end
FairSpec ==
    /\ Init
    /\ [][LoadNext]_vars
    /\ \A i \in Slots : WF_vars(ReadSettles(i))

------------------------------------------------------------------------------
\* What the claims speak of

InFlight == {i \in Slots : loads[i].pc = "reading"}

\* the local calendar day an instant falls on
LocalDayOf(t) == (t + tz) \div MinutesPerDay

\* a document whose read or whose parse fails
ReadOrParseFails(file) == ~file.readable \/ ~file.parses

RECURSIVE UnionOfSucceeded(_, _)
\* in document order, the events of the documents whose processing succeeded
UnionOfSucceeded(files, k) ==
    IF k > Len(files) THEN <<>>
    ELSE (IF FileThrows(files[k]) THEN <<>> ELSE FileEvents(files[k]))
         \o UnionOfSucceeded(files, k + 1)

\* an event component with both its start and its end date-time
WellFormed(vevent) == vevent.hasStart /\ vevent.hasEnd

RECURSIVE WellFormedEvents(_, _)
\* in component order, the events of the well-formed components of a document
WellFormedEvents(vevents, k) ==
    IF k > Len(vevents) THEN <<>>
    ELSE (IF WellFormed(vevents[k]) THEN <<ToEvent(vevents[k])>> ELSE <<>>)
         \o WellFormedEvents(vevents, k + 1)

RECURSIVE UnionOfWellFormed(_, _)
\* in document order, the well-formed events of every document that was read
\* and parsed
UnionOfWellFormed(files, k) ==
    IF k > Len(files) THEN <<>>
    ELSE (IF ReadOrParseFails(files[k]) THEN <<>>
          ELSE WellFormedEvents(files[k].vevents, 1))
         \o UnionOfWellFormed(files, k + 1)

\* the startup load has returned and nothing else has run yet
StartupLoadReturned == pluginPc = "startup" /\ loads[1].pc = "idle"

\* C1: whenever a query can run, the collection is the complete collection of
\* the load that returned last or the complete collection of a load in
\* flight, never an emptied or partly filled one.
C1_QuerySeesCompleteCollection ==
    pluginPc = "ready" =>
        \/ events = committed
        \/ \E i \in InFlight : events = UnionOfSucceeded(loads[i].icsFiles, 1)

\* C2: a document whose read or parse fails adds no event, a document that
\* succeeds adds its events, the invocation goes on to the next document or
\* ends showing its count, and a startup load ends with exactly the events of
\* the documents that succeeded.
C2_FailureIsolation ==
    /\ [][\A i \in Slots :
            (loads[i].pc = "reading" /\ loads'[i] # loads[i]) =>
                LET file == loads[i].icsFiles[loads[i].idx]
                IN  /\ ReadOrParseFails(file) => events' = events
                    /\ ~FileThrows(file) => events' = events \o FileEvents(file)
                    /\ IF loads[i].idx < Len(loads[i].icsFiles)
                       THEN /\ loads'[i].pc = "reading"
                            /\ loads'[i].idx = loads[i].idx + 1
                            /\ loads'[i].icsFiles = loads[i].icsFiles
                       ELSE /\ loads'[i].pc = "idle"
                            /\ lastDone'.notice.kind = "loaded"]_vars
    /\ [](StartupLoadReturned =>
            /\ lastDone.notice.kind \in {"loaded", "notset"}
            /\ lastDone.notice.kind = "loaded" =>
                   events = UnionOfSucceeded(lastDone.icsFiles, 1))

\* a startup load over a failed and a succeeded document has returned
C2_Witness ==
    /\ StartupLoadReturned
    /\ lastDone.notice.kind = "loaded"
    /\ \E k \in 1..Len(lastDone.icsFiles) : ReadOrParseFails(lastDone.icsFiles[k])
    /\ \E k \in 1..Len(lastDone.icsFiles) : ~FileThrows(lastDone.icsFiles[k])
    /\ events # <<>>

\* C3: a document that was read and parsed yields exactly its well-formed
\* event components: after a startup load the collection is the well-formed
\* events of those documents.
C3_MalformedComponentDroppedAlone ==
    (StartupLoadReturned /\ lastDone.notice.kind = "loaded") =>
        events = UnionOfWellFormed(lastDone.icsFiles, 1)

\* C4: when an invocation has returned and none is in flight, the collection
\* is exactly the events of the documents that succeeded in that invocation
\* (none, when the directory was unset).
C4_FullReplacement ==
    (lastDone.pc = "done" /\ InFlight = {}) =>
        events = UnionOfSucceeded(lastDone.icsFiles, 1)

\* C5: at most one load is between its reset and its return.
C5_NoOverlappingLoads == Cardinality(InFlight) <= 1

\* the positions of a collection whose event starts on the local day of date
OnDay(coll, date) ==
    {k \in 1..Len(coll) : LocalDayOf(coll[k].start) = LocalDayOf(date)}

\* the n-th smallest member of a set of positions
Nth(positions, n) ==
    CHOOSE k \in positions : Cardinality({j \in positions : j <= k}) = n

\* res is exactly the events of coll on the local day of date, in coll's order
IsDayFilter(res, coll, date) ==
    /\ Len(res) = Cardinality(OnDay(coll, date))
    /\ \A n \in 1..Len(res) : res[n] = coll[Nth(OnDay(coll, date), n)]

\* C6: a query returns exactly the events of the collection that start on
\* the local calendar day of the date asked for, in the collection's order.
C6_ExactlyTheEventsOfTheDay ==
    lastQuery.kind # "none" =>
        IsDayFilter(lastQuery.result, events, lastQuery.date)

\* a query returned two events and left another one out
C6_Witness ==
    /\ lastQuery.kind # "none"
    /\ Len(lastQuery.result) = 2
    /\ lastQuery.result[1] # lastQuery.result[2]
    /\ Len(events) > 2

\* the sentinel of each call site
Sentinel(kind) ==
    IF kind = "insert" THEN "No events for this date." ELSE "No events for today."

\* the pieces of the row '| HH:MM | summary |' of an event
RowOf(event) ==
    LET clock == (event.start + tz) % MinutesPerDay
        hh == clock \div 60
        mm == clock % 60
    IN  <<"| ", Digits[(hh \div 10) + 1], Digits[(hh % 10) + 1], ":",
          Digits[(mm \div 10) + 1], Digits[(mm % 10) + 1], " | ",
          event.summary, " |\n">>

\* C7: the rendered text is the sentinel exactly when there is no event;
\* otherwise it is the two header lines followed by one row per event, in
\* order.
C7_SentinelOrTable ==
    lastQuery.kind # "none" =>
        LET res == lastQuery.result
            out == lastQuery.out
        IN  /\ (out = <<Sentinel(lastQuery.kind)>>) <=> (res = <<>>)
            /\ out # <<>>
            /\ res # <<>> =>
                  /\ Len(out) = 2 + 9 * Len(res)
                  /\ out[1] = "| Time | Event |\n"
                  /\ out[2] = "|------|-------|\n"
                  /\ \A n \in 1..Len(res) :
                        SubSeq(out, 9 * n - 6, 9 * n + 2) = RowOf(res[n])

\* a table of two rows was inserted
C7_Witness ==
    /\ lastQuery.kind = "insert"
    /\ Len(lastQuery.result) = 2
    /\ Len(lastQuery.out) = 20

C9_QueryIdempotent ==
    [][lastQuery'.kind # "none" =>
        /\ events' = events
        /\ (lastQuery.kind # "none" /\ lastQuery'.date = lastQuery.date) =>
               lastQuery'.result = lastQuery.result]_vars

\* the same date was asked for twice in a row and events were returned
C9_Witness ==
    /\ lastQuery.again
    /\ lastQuery.result # <<>>
    /\ Len(lastQuery.result) < Len(events)

\* C10: with 'date: YYYY-MM-DD' in the note, the inserted table is that of
\* exactly the events starting on local day YYYY-MM-DD; without, the current
\* date is used.
C10_InsertsTheEventsOfTheNoteDate ==
    lastQuery.kind = "insert" =>
        IF lastQuery.noteDay # 0
        THEN /\ \A k \in 1..Len(events) :
                    LocalDayOf(events[k].start) = lastQuery.noteDay =>
                        \E n \in 1..Len(lastQuery.result) :
                            lastQuery.result[n] = events[k]
             /\ \A n \in 1..Len(lastQuery.result) :
                    LocalDayOf(lastQuery.result[n].start) = lastQuery.noteDay
        ELSE lastQuery.date \in Nows

====
